---- MODULE Spec2Model ----
(***************************************************************************)
(* Model of the scorecard resource of terraform-scorecard-provider:        *)
(* internal/provider/scorecard_resource.go (Create, Read, Update, Delete,  *)
(* mapApiResponseToTerraformModel) and the dxapi client it calls.          *)
(***************************************************************************)
EXTENDS Integers, Sequences, FiniteSets, TLC

(***************************************************************************)
(* Values of the plugin framework (types.String, types.Bool,               *)
(* types.Number): null, unknown or known.  ValueString / ValueBool return  *)
(* the zero value for a null or unknown attribute.  The zero value of a    *)
(* Go struct field of these types is the null value.                       *)
(***************************************************************************)
StringNull == [st |-> "null", v |-> ""]

StringUnknown == [st |-> "unknown", v |-> ""]

StringValue(s) == [st |-> "known", v |-> s]

BoolNull == [st |-> "null", v |-> FALSE]

BoolValue(b) == [st |-> "known", v |-> b]

NumberNull == [st |-> "null", v |-> 0]

NumberValue(n) == [st |-> "known", v |-> n]

IsNull(x) == x.st = "null"

IsUnknown(x) == x.st = "unknown"

ValueString(x) == IF x.st = "known" THEN x.v ELSE ""

ValueBool(x) == IF x.st = "known" THEN x.v ELSE FALSE

(***************************************************************************)
(* Go pointers to string, int, big.Float, APILevel: nil or a value.         *)
(***************************************************************************)
NilStr == [v |-> "", nil |-> TRUE]

PtrStr(s) == [v |-> s, nil |-> FALSE]

NilInt == [v |-> 0, nil |-> TRUE]

PtrInt(n) == [v |-> n, nil |-> FALSE]

ValueBigFloat(x) == IF x.st = "known" THEN PtrInt(x.v) ELSE NilInt

(***************************************************************************)
(* The resource data model (scorecardModel and its nested models), with    *)
(* the zero values Go gives to `var oldLevel levelModel` and to the        *)
(* elements of a slice built by make.                                      *)
(***************************************************************************)
levelModel(key, id, name, color, rank) ==
  [Key |-> key, Id |-> id, Name |-> name, Color |-> color, Rank |-> rank]

ZeroLevelModel ==
  levelModel(StringNull, StringNull, StringNull, StringNull, NumberNull)

checkGroupModel(key, id, name, ordering) ==
  [Key |-> key, Id |-> id, Name |-> name, Ordering |-> ordering]

ZeroCheckGroupModel ==
  checkGroupModel(StringNull, StringNull, StringNull, NumberNull)

ZeroCheckModel ==
  [Id |-> StringNull,
   Name |-> StringNull,
   Ordering |-> NumberNull,
   Description |-> StringNull,
   Sql |-> StringNull,
   FilterSql |-> StringNull,
   FilterMessage |-> StringNull,
   OutputEnabled |-> BoolNull,
   OutputType |-> StringNull,
   OutputAggregation |-> StringNull,
   OutputCustomOptions |-> StringNull,
   EstimatedDevDays |-> NumberNull,
   ExternalUrl |-> StringNull,
   Published |-> BoolNull,
   ScorecardLevelKey |-> StringNull,
   Level |-> ZeroLevelModel,
   ScorecardCheckGroupKey |-> StringNull,
   CheckGroup |-> ZeroCheckGroupModel,
   Points |-> NumberNull]

ZeroScorecardModel ==
  [Id |-> StringNull,
   Name |-> StringNull,
   Description |-> StringNull,
   Published |-> BoolNull,
   Type |-> StringNull,
   EntityFilterType |-> StringNull,
   EvaluationFrequency |-> NumberNull,
   EmptyLevelLabel |-> StringNull,
   EmptyLevelColor |-> StringNull,
   Levels |-> <<>>,
   CheckGroups |-> <<>>,
   EntityFilterTypeIdentifiers |-> <<>>,
   EntityFilterSql |-> StringNull,
   Checks |-> <<>>]

(***************************************************************************)
(* The structs the client decodes a response into.  A field the response   *)
(* omits decodes to nil (pointers), "" (strings), false (bools) or an      *)
(* empty list.                                                             *)
(***************************************************************************)
APILevel(key, id, name, color, rank) ==
  [Key |-> key, Id |-> id, Name |-> name, Color |-> color, Rank |-> rank]

ZeroAPILevel == APILevel(NilStr, NilStr, NilStr, NilStr, NilInt)

APICheckGroup(key, id, name, ordering) ==
  [Key |-> key, Id |-> id, Name |-> name, Ordering |-> ordering]

ZeroAPICheckGroup == APICheckGroup(NilStr, NilStr, NilStr, NilInt)

NilLevel == [v |-> ZeroAPILevel, nil |-> TRUE]

PtrLevel(l) == [v |-> l, nil |-> FALSE]

NilCheckGroup == [v |-> ZeroAPICheckGroup, nil |-> TRUE]

PtrCheckGroup(g) == [v |-> g, nil |-> FALSE]

ZeroAPICheck ==
  [Id |-> NilStr,
   Name |-> NilStr,
   Ordering |-> NilInt,
   Description |-> NilStr,
   Sql |-> NilStr,
   FilterSql |-> NilStr,
   FilterMessage |-> NilStr,
   OutputEnabled |-> FALSE,
   OutputType |-> NilStr,
   OutputAggregation |-> NilStr,
   OutputCustomOptions |-> NilStr,
   EstimatedDevDays |-> NilInt,
   ExternalUrl |-> NilStr,
   Published |-> FALSE,
   ScorecardLevelKey |-> NilStr,
   Level |-> NilLevel,
   ScorecardCheckGroupKey |-> NilStr,
   CheckGroup |-> NilCheckGroup,
   Points |-> NilInt]

ZeroAPIScorecard ==
  [Id |-> "",
   Name |-> "",
   Description |-> NilStr,
   Published |-> FALSE,
   Type |-> "",
   EntityFilterType |-> "",
   EvaluationFrequency |-> 0,
   EmptyLevelLabel |-> NilStr,
   EmptyLevelColor |-> NilStr,
   Levels |-> <<>>,
   CheckGroups |-> <<>>,
   EntityFilterTypeIdentifiers |-> <<>>,
   EntityFilterSql |-> NilStr,
   Checks |-> <<>>]

APIResponse(ok, scorecard) == [Ok |-> ok, Scorecard |-> scorecard]

ZeroAPIResponse == APIResponse(FALSE, ZeroAPIScorecard)

(***************************************************************************)
(* Diagnostics: resp.Diagnostics.AddError(summary, detail).  A detail      *)
(* built by fmt.Sprintf is kept as the format followed by its arguments.   *)
(***************************************************************************)
Diag(summary, detail) == [summary |-> summary, detail |-> detail]

HasError(ds) == Len(ds) > 0

(***************************************************************************)
(* What the network and the remote service do with one request: the        *)
(* transport fails ("transport"), the execution context is cancelled       *)
(* during the call ("cancelled"), or a response arrives with a status      *)
(* code and a body that decodes into an APIResponse or does not.           *)
(***************************************************************************)
Wire(net, status, decodable, body) ==
  [net |-> net, status |-> status, decodable |-> decodable, body |-> body]

StatusOK == 200

StatusCreated == 201

StatusNoContent == 204

StatusNotFound == 404

ClientOk(resp) == [resp |-> resp, err |-> <<>>]

ClientErr(msg) == [resp |-> ZeroAPIResponse, err |-> msg]

\* Exchange refusing a decoded response whose `ok` is false.
ExchangeCheckingOk(accepted, w) ==
  IF w.net # "ok"
    THEN ClientErr(<<"making HTTP request: %w", w.net>>)
  ELSE IF w.status \notin accepted
    THEN ClientErr(<<"unexpected status code: %d, response body: %s", w.status>>)
  ELSE IF ~w.decodable
    THEN ClientErr(<<"decoding API response: %w">>)
  ELSE IF ~w.body.Ok
    THEN ClientErr(<<"API response not ok">>)
  ELSE ClientOk(w.body)

\* The three calls that return a decoded response differ in the statuses
\* they accept.
Exchange(accepted, w) ==
  IF w.net # "ok"
    THEN ClientErr(<<"making HTTP request: %w", w.net>>)
  ELSE IF w.status \notin accepted
    THEN ClientErr(<<"unexpected status code: %d, response body: %s", w.status>>)
  ELSE IF ~w.decodable
    THEN ClientErr(<<"decoding API response: %w">>)
  ELSE ClientOk(w.body)

CreateScorecard(payload, w) == Exchange({StatusCreated, StatusOK}, w)

GetScorecard(id, w) == Exchange({StatusOK}, w)

UpdateScorecard(payload, w) == Exchange({StatusOK, StatusCreated}, w)

\* DeleteScorecard taking "not found" for a deletion that is done.
DeleteScorecardIgnoringNotFound(id, w) ==
  IF w.net # "ok"
    THEN [err |-> <<"making HTTP request: %w", w.net>>, success |-> FALSE]
  ELSE IF w.status \notin {StatusOK, StatusNoContent, StatusNotFound}
    THEN [err |-> <<"unexpected status code: %d, response body: %s", w.status>>,
          success |-> FALSE]
  ELSE [err |-> <<>>, success |-> TRUE]

\* DeleteScorecard returns (bool, error) and never decodes the body.
DeleteScorecard(id, w) ==
  IF w.net # "ok"
    THEN [err |-> <<"making HTTP request: %w", w.net>>, success |-> FALSE]
  ELSE IF w.status \notin {StatusOK, StatusNoContent}
    THEN [err |-> <<"unexpected status code: %d, response body: %s", w.status>>,
          success |-> FALSE]
  ELSE [err |-> <<>>, success |-> TRUE]

(***************************************************************************)
(* Validation, as Create does it: a missing required scalar is reported    *)
(* and the handler returns at once; the rules selected by the type are     *)
(* all evaluated and their errors accumulated.                             *)
(***************************************************************************)
Missing(x) == IsNull(x) \/ IsUnknown(x)

MissingField(msg) == Diag("Missing required field", <<msg>>)

RequiredScalarErrors(plan) ==
  IF Missing(plan.Name)
    THEN <<MissingField("The 'name' field must be specified.")>>
  ELSE IF Missing(plan.Type)
    THEN <<MissingField("The 'type' field must be specified.")>>
  ELSE IF Missing(plan.EntityFilterType)
    THEN <<MissingField("The 'entity_filter_type' field must be specified.")>>
  ELSE IF Missing(plan.EvaluationFrequency)
    THEN <<MissingField("The 'evaluation_frequency_hours' field must be specified.")>>
  ELSE <<>>

TypeErrors(plan) ==
  LET scorecardType == ValueString(plan.Type) IN
  IF scorecardType = "LEVEL" THEN
    (IF Missing(plan.EmptyLevelLabel)
       THEN <<MissingField("The 'empty_level_label' field must be specified for LEVEL scorecards.")>>
       ELSE <<>>)
    \o (IF Missing(plan.EmptyLevelColor)
       THEN <<MissingField("The 'empty_level_color' field must be specified for LEVEL scorecards.")>>
       ELSE <<>>)
    \o (IF Len(plan.Levels) = 0
       THEN <<MissingField("At least one 'level' must be specified for LEVEL scorecards.")>>
       ELSE <<>>)
  ELSE IF scorecardType = "POINTS" THEN
    (IF Len(plan.CheckGroups) = 0
       THEN <<MissingField("At least one 'check_group' must be specified for POINTS scorecards.")>>
       ELSE <<>>)
  ELSE <<Diag("Invalid scorecard type",
              <<"Unsupported scorecard type: %s", scorecardType>>)>>

CreateValidation(plan) ==
  IF HasError(RequiredScalarErrors(plan))
    THEN RequiredScalarErrors(plan)
    ELSE TypeErrors(plan)

(***************************************************************************)
(* The wire payload: a Go map[string]interface{}, here a function from     *)
(* the keys that were set to their values.  A key that is not set is not   *)
(* in the domain.                                                          *)
(***************************************************************************)
EmptyMap == [k \in {} |-> k]

Entry(cond, map) == IF cond THEN map ELSE EmptyMap

Present(x) == ~IsNull(x) /\ ~IsUnknown(x)

\* The identifiers of the plan that are neither null nor unknown.
Identifiers(ids) ==
  LET kept == SelectSeq(ids, Present)
  IN  [i \in 1..Len(kept) |-> ValueString(kept[i])]

OptionalEntries(plan) ==
  Entry(Present(plan.Description),
        [description |-> ValueString(plan.Description)])
  @@ Entry(Present(plan.Published),
        [published |-> ValueBool(plan.Published)])
  @@ Entry(Len(plan.EntityFilterTypeIdentifiers) > 0,
        [entity_filter_type_identifiers |->
           Identifiers(plan.EntityFilterTypeIdentifiers)])
  @@ Entry(Present(plan.EntityFilterSql),
        [entity_filter_sql |-> ValueString(plan.EntityFilterSql)])

\* withId: Update sends the "id" of every entity, Create sends none, except
\* that Create's embedded level of a check carries "id" too.
\* LevelPayload with the "id" line of Update in Create as well.
LevelPayloadAlwaysId(level, withId) ==
  [key |-> ValueString(level.Key), id |-> ValueString(level.Id),
   name |-> ValueString(level.Name), color |-> ValueString(level.Color),
   rank |-> ValueBigFloat(level.Rank)]

LevelPayload(level, withId) ==
  [key |-> ValueString(level.Key), name |-> ValueString(level.Name),
   color |-> ValueString(level.Color), rank |-> ValueBigFloat(level.Rank)]
  @@ Entry(withId, [id |-> ValueString(level.Id)])

CheckGroupPayload(group, withId) ==
  [key |-> ValueString(group.Key), name |-> ValueString(group.Name),
   ordering |-> group.Ordering]
  @@ Entry(withId, [id |-> ValueString(group.Id)])

\* CheckPayload deciding by what the check holds: the level entries are
\* sent whenever the check has a level, the check group entries whenever
\* it has a check group.
CheckPayloadByContent(check, scorecardType, isUpdate) ==
  [name |-> ValueString(check.Name),
   ordering |-> check.Ordering,
   description |-> ValueString(check.Description),
   published |-> ValueBool(check.Published),
   sql |-> ValueString(check.Sql),
   filter_sql |-> ValueString(check.FilterSql),
   filter_message |-> ValueString(check.FilterMessage),
   output_enabled |-> ValueBool(check.OutputEnabled),
   output_type |-> ValueString(check.OutputType),
   output_aggregation |-> ValueString(check.OutputAggregation),
   output_custom_options |-> ValueString(check.OutputCustomOptions),
   estimated_dev_days |-> check.EstimatedDevDays,
   external_url |-> ValueString(check.ExternalUrl)]
  @@ Entry(isUpdate, [id |-> ValueString(check.Id)])
  @@ Entry(scorecardType = "LEVEL" \/ ~Missing(check.Level.Key),
        [level |-> LevelPayload(check.Level, TRUE),
         scorecard_level_key |-> ValueString(check.ScorecardLevelKey)])
  @@ Entry(scorecardType = "POINTS" \/ ~Missing(check.CheckGroup.Key),
        [scorecard_check_group_key |-> ValueString(check.ScorecardCheckGroupKey),
         check_group |-> CheckGroupPayload(check.CheckGroup, isUpdate),
         points |-> check.Points])

CheckPayload(check, scorecardType, isUpdate) ==
  [name |-> ValueString(check.Name),
   ordering |-> check.Ordering,
   description |-> ValueString(check.Description),
   published |-> ValueBool(check.Published),
   sql |-> ValueString(check.Sql),
   filter_sql |-> ValueString(check.FilterSql),
   filter_message |-> ValueString(check.FilterMessage),
   output_enabled |-> ValueBool(check.OutputEnabled),
   output_type |-> ValueString(check.OutputType),
   output_aggregation |-> ValueString(check.OutputAggregation),
   output_custom_options |-> ValueString(check.OutputCustomOptions),
   estimated_dev_days |-> check.EstimatedDevDays,
   external_url |-> ValueString(check.ExternalUrl)]
  @@ Entry(isUpdate, [id |-> ValueString(check.Id)])
  @@ Entry(scorecardType = "LEVEL",
        [level |-> LevelPayload(check.Level, TRUE),
         scorecard_level_key |-> ValueString(check.ScorecardLevelKey)])
  @@ Entry(scorecardType = "POINTS",
        [scorecard_check_group_key |-> ValueString(check.ScorecardCheckGroupKey),
         check_group |-> CheckGroupPayload(check.CheckGroup, isUpdate),
         points |-> check.Points])

\* TypeEntries deciding by what the plan holds: levels are sent whenever
\* the plan has levels, check groups whenever it has check groups.
TypeEntriesByContent(plan, scorecardType, isUpdate) ==
  Entry(scorecardType = "LEVEL" \/ Len(plan.Levels) > 0,
        [empty_level_label |-> ValueString(plan.EmptyLevelLabel),
         empty_level_color |-> ValueString(plan.EmptyLevelColor),
         levels |-> [i \in 1..Len(plan.Levels) |->
                       LevelPayload(plan.Levels[i], isUpdate)]])
  @@ Entry(scorecardType = "POINTS" \/ Len(plan.CheckGroups) > 0,
        [check_groups |-> [i \in 1..Len(plan.CheckGroups) |->
                             CheckGroupPayload(plan.CheckGroups[i], isUpdate)]])

TypeEntries(plan, scorecardType, isUpdate) ==
  Entry(scorecardType = "LEVEL",
        [empty_level_label |-> ValueString(plan.EmptyLevelLabel),
         empty_level_color |-> ValueString(plan.EmptyLevelColor),
         levels |-> [i \in 1..Len(plan.Levels) |->
                       LevelPayload(plan.Levels[i], isUpdate)]])
  @@ Entry(scorecardType = "POINTS",
        [check_groups |-> [i \in 1..Len(plan.CheckGroups) |->
                             CheckGroupPayload(plan.CheckGroups[i], isUpdate)]])

ChecksEntry(plan, scorecardType, isUpdate) ==
  [checks |-> [i \in 1..Len(plan.Checks) |->
                 CheckPayload(plan.Checks[i], scorecardType, isUpdate)]]

CreatePayload(plan) ==
  LET scorecardType == ValueString(plan.Type) IN
  [name |-> ValueString(plan.Name),
   type |-> scorecardType,
   entity_filter_type |-> ValueString(plan.EntityFilterType),
   evaluation_frequency_hours |-> ValueBigFloat(plan.EvaluationFrequency)]
  @@ TypeEntries(plan, scorecardType, FALSE)
  @@ OptionalEntries(plan)
  @@ ChecksEntry(plan, scorecardType, FALSE)

UpdatePayload(plan) ==
  LET scorecardType == ValueString(plan.Type) IN
  [id |-> ValueString(plan.Id),
   name |-> ValueString(plan.Name),
   type |-> ValueString(plan.Type),
   entity_filter_type |-> ValueString(plan.EntityFilterType),
   evaluation_frequency_hours |-> ValueBigFloat(plan.EvaluationFrequency)]
  @@ TypeEntries(plan, scorecardType, TRUE)
  @@ OptionalEntries(plan)
  @@ ChecksEntry(plan, scorecardType, TRUE)

(***************************************************************************)
(* mapApiResponseToTerraformModel(apiResp, plan, oldPlan): writes the      *)
(* response into plan, reading what the response does not carry from       *)
(* oldPlan.  The three callers pass a shallow copy of plan as oldPlan.     *)
(***************************************************************************)
\* stringOrNull giving the empty string for a nil pointer.
stringOrEmpty(s) == IF ~s.nil THEN StringValue(s.v) ELSE StringValue("")

stringOrNull(s) == IF ~s.nil THEN StringValue(s.v) ELSE StringNull

boolApiToTF(apiVal, planVal) ==
  IF IsNull(planVal) /\ ~apiVal THEN BoolNull ELSE BoolValue(apiVal)

numberOrNull(n) == IF ~n.nil THEN NumberValue(n.v) ELSE NumberNull

\* mapLevels pairing by name: the key of the first old level that has the
\* name of the response's level.
mapLevelsKeyByName(apiLevels, oldLevels) ==
  IF Len(apiLevels) > 0
    THEN [i \in 1..Len(apiLevels) |->
           LET lvl == apiLevels[i]
               named == {j \in 1..Len(oldLevels) :
                           oldLevels[j].Name = stringOrNull(lvl.Name)}
               oldLevel == IF named # {}
                             THEN oldLevels[CHOOSE j \in named :
                                              \A k \in named : j <= k]
                             ELSE ZeroLevelModel
           IN  levelModel(oldLevel.Key, stringOrNull(lvl.Id),
                          stringOrNull(lvl.Name), stringOrNull(lvl.Color),
                          numberOrNull(lvl.Rank))]
    ELSE oldLevels

\* mapLevels pairing one position off: the key of the old level that
\* follows the position of the response's level.
mapLevelsShifted(apiLevels, oldLevels) ==
  IF Len(apiLevels) > 0
    THEN [i \in 1..Len(apiLevels) |->
           LET lvl == apiLevels[i]
               oldLevel == IF i + 1 <= Len(oldLevels) THEN oldLevels[i + 1]
                                                      ELSE ZeroLevelModel
           IN  levelModel(oldLevel.Key, stringOrNull(lvl.Id),
                          stringOrNull(lvl.Name), stringOrNull(lvl.Color),
                          numberOrNull(lvl.Rank))]
    ELSE oldLevels

mapLevels(apiLevels, oldLevels) ==
  IF Len(apiLevels) > 0
    THEN [i \in 1..Len(apiLevels) |->
           LET lvl == apiLevels[i]
               oldLevel == IF i <= Len(oldLevels) THEN oldLevels[i]
                                                  ELSE ZeroLevelModel
           IN  levelModel(oldLevel.Key, stringOrNull(lvl.Id),
                          stringOrNull(lvl.Name), stringOrNull(lvl.Color),
                          numberOrNull(lvl.Rank))]
    ELSE oldLevels

\* mapCheckGroups reading the key the response decodes (APICheckGroup.Key).
mapCheckGroupsKeyFromResponse(apiGroups, oldGroups) ==
  IF Len(apiGroups) > 0
    THEN [i \in 1..Len(apiGroups) |->
           LET grp == apiGroups[i]
           IN  checkGroupModel(stringOrNull(grp.Key), stringOrNull(grp.Id),
                               stringOrNull(grp.Name),
                               numberOrNull(grp.Ordering))]
    ELSE oldGroups

\* mapCheckGroups keeping the old check groups that lie beyond the
\* response's length.
mapCheckGroupsPadded(apiGroups, oldGroups) ==
  IF Len(apiGroups) > 0
    THEN [i \in 1..Len(apiGroups) |->
           LET grp == apiGroups[i]
               prevCheckGroup == IF i <= Len(oldGroups) THEN oldGroups[i]
                                                        ELSE ZeroCheckGroupModel
           IN  checkGroupModel(prevCheckGroup.Key, stringOrNull(grp.Id),
                               stringOrNull(grp.Name),
                               numberOrNull(grp.Ordering))]
         \o SubSeq(oldGroups, Len(apiGroups) + 1, Len(oldGroups))
    ELSE oldGroups

mapCheckGroups(apiGroups, oldGroups) ==
  IF Len(apiGroups) > 0
    THEN [i \in 1..Len(apiGroups) |->
           LET grp == apiGroups[i]
               prevCheckGroup == IF i <= Len(oldGroups) THEN oldGroups[i]
                                                        ELSE ZeroCheckGroupModel
           IN  checkGroupModel(prevCheckGroup.Key, stringOrNull(grp.Id),
                               stringOrNull(grp.Name),
                               numberOrNull(grp.Ordering))]
    ELSE oldGroups

mapIdentifiers(apiIds, oldIds) ==
  IF Len(apiIds) > 0
    THEN [i \in 1..Len(apiIds) |-> stringOrNull(apiIds[i])]
    ELSE oldIds

\* plan.Checks is a fresh slice (make) when element i is built, so the
\* plan.Checks[i] that boolApiToTF is given is the zero checkModel.
mapCheck(chk, prevCheck, madeCheck) ==
  [Id |-> stringOrNull(chk.Id),
   Name |-> stringOrNull(chk.Name),
   Ordering |-> numberOrNull(chk.Ordering),
   Description |-> stringOrNull(chk.Description),
   Sql |-> stringOrNull(chk.Sql),
   FilterSql |-> stringOrNull(chk.FilterSql),
   FilterMessage |-> stringOrNull(chk.FilterMessage),
   OutputEnabled |-> boolApiToTF(chk.OutputEnabled, madeCheck.OutputEnabled),
   OutputType |-> stringOrNull(chk.OutputType),
   OutputAggregation |-> stringOrNull(chk.OutputAggregation),
   OutputCustomOptions |-> stringOrNull(chk.OutputCustomOptions),
   EstimatedDevDays |-> numberOrNull(chk.EstimatedDevDays),
   ExternalUrl |-> stringOrNull(chk.ExternalUrl),
   Published |-> boolApiToTF(chk.Published, madeCheck.Published),
   ScorecardLevelKey |-> prevCheck.ScorecardLevelKey,
   Level |-> levelModel(prevCheck.Level.Key, stringOrNull(chk.Level.v.Id),
                        stringOrNull(chk.Level.v.Name),
                        stringOrNull(chk.Level.v.Color),
                        numberOrNull(chk.Level.v.Rank)),
   ScorecardCheckGroupKey |-> prevCheck.ScorecardCheckGroupKey,
   CheckGroup |-> checkGroupModel(prevCheck.CheckGroup.Key,
                                  stringOrNull(chk.CheckGroup.v.Id),
                                  stringOrNull(chk.CheckGroup.v.Name),
                                  numberOrNull(chk.CheckGroup.v.Ordering)),
   Points |-> numberOrNull(chk.Points)]

\* mapChecks without the else branch: an empty response list clears the
\* list.
mapChecksClearing(apiChecks, oldChecks) ==
  [i \in 1..Len(apiChecks) |->
     LET prevCheck == IF i <= Len(oldChecks) THEN oldChecks[i]
                                             ELSE ZeroCheckModel
     IN  mapCheck(apiChecks[i], prevCheck, ZeroCheckModel)]

mapChecks(apiChecks, oldChecks) ==
  IF Len(apiChecks) > 0
    THEN LET made == [i \in 1..Len(apiChecks) |-> ZeroCheckModel]
         IN  [i \in 1..Len(apiChecks) |->
               LET prevCheck == IF i <= Len(oldChecks) THEN oldChecks[i]
                                                       ELSE ZeroCheckModel
               IN  mapCheck(apiChecks[i], prevCheck, made[i])]
    ELSE oldChecks

\* chk.Level.Id and chk.CheckGroup.Id dereference the pointers of the
\* check: a check whose "level" or "check_group" is nil panics (nil
\* pointer dereference) before anything is written to the state.
mapPanics(apiResp) ==
  \E i \in 1..Len(apiResp.Scorecard.Checks) :
     \/ apiResp.Scorecard.Checks[i].Level.nil
     \/ apiResp.Scorecard.Checks[i].CheckGroup.nil

mapApiResponseToTerraformModel(apiResp, plan, oldPlan) ==
  LET sc == apiResp.Scorecard IN
  [plan |->
     [Id |-> StringValue(sc.Id),
      Name |-> StringValue(sc.Name),
      Description |-> stringOrNull(sc.Description),
      Published |-> boolApiToTF(sc.Published, plan.Published),
      Type |-> StringValue(sc.Type),
      EntityFilterType |-> StringValue(sc.EntityFilterType),
      EvaluationFrequency |-> NumberValue(sc.EvaluationFrequency),
      EmptyLevelLabel |-> stringOrNull(sc.EmptyLevelLabel),
      EmptyLevelColor |-> stringOrNull(sc.EmptyLevelColor),
      Levels |-> mapLevels(sc.Levels, oldPlan.Levels),
      CheckGroups |-> mapCheckGroups(sc.CheckGroups, oldPlan.CheckGroups),
      EntityFilterTypeIdentifiers |->
        mapIdentifiers(sc.EntityFilterTypeIdentifiers,
                       oldPlan.EntityFilterTypeIdentifiers),
      EntityFilterSql |-> stringOrNull(sc.EntityFilterSql),
      Checks |-> IF mapPanics(apiResp) THEN oldPlan.Checks
                 ELSE mapChecks(sc.Checks, oldPlan.Checks)],
   panic |-> mapPanics(apiResp)]

(***************************************************************************)
(* State.  `state` is the persisted state of one resource instance: <<>>   *)
(* when there is none, <<m>> when the scorecardModel m is stored.  The     *)
(* other variables record the last lifecycle event: the state before it,   *)
(* the diagnostics it reported, the remote calls it issued, whether the    *)
(* handler panicked, and its inputs (the plan and what the remote side     *)
(* did with the call).                                                     *)
(***************************************************************************)
VARIABLES state, before, diags, calls, crashed, event

vars == <<state, before, diags, calls, crashed, event>>

ZeroWire == Wire("ok", 0, FALSE, ZeroAPIResponse)

Event(op, plan, wire) == [plan |-> plan, op |-> op, wire |-> wire]

Call(op, arg) == [op |-> op, arg |-> arg]

Init ==
  /\ state = <<>>
  /\ before = <<>>
  /\ diags = <<>>
  /\ calls = <<>>
  /\ crashed = FALSE
  /\ event = Event("none", ZeroScorecardModel, ZeroWire)

\* Fails, had the handler discarded the persisted state on an error (what
\* the commented-out not-found handling of Read would do for every error).
FailsRemovingState(ds, cs) ==
  /\ diags' = ds
  /\ calls' = cs
  /\ crashed' = FALSE
  /\ state' = <<>>

\* A handler that returns after reporting errors, having written nothing.
Fails(ds, cs) ==
  /\ diags' = ds
  /\ calls' = cs
  /\ crashed' = FALSE
  /\ state' = state

\* The handler maps the response and stores the result with State.Set; a
\* panic in the mapping ends the handler before State.Set.
Stores(apiResp, plan, cs) ==
  LET mapped == mapApiResponseToTerraformModel(apiResp, plan, plan) IN
  /\ diags' = <<>>
  /\ calls' = cs
  /\ crashed' = mapped.panic
  /\ state' = IF mapped.panic THEN state ELSE <<mapped.plan>>

\* Create repeating the remote call once when it fails.
CreateRetrying(plan, w) ==
  /\ state = <<>>
  /\ before' = state
  /\ event' = Event("Create", plan, w)
  /\ IF HasError(CreateValidation(plan))
       THEN Fails(CreateValidation(plan), <<>>)
       ELSE LET payload == CreatePayload(plan)
                r == CreateScorecard(payload, w)
                cs == <<Call("create", payload)>>
            IN  IF r.err # <<>>
                  THEN Fails(<<Diag("Error creating scorecard", r.err)>>,
                             cs \o cs)
                  ELSE Stores(r.resp, plan, cs)

Create(plan, w) ==
  /\ state = <<>>
  /\ before' = state
  /\ event' = Event("Create", plan, w)
  /\ IF HasError(CreateValidation(plan))
       THEN Fails(CreateValidation(plan), <<>>)
       ELSE LET payload == CreatePayload(plan)
                r == CreateScorecard(payload, w)
                cs == <<Call("create", payload)>>
            IN  IF r.err # <<>>
                  THEN Fails(<<Diag("Error creating scorecard", r.err)>>, cs)
                  ELSE Stores(r.resp, plan, cs)

Read(w) ==
  /\ state # <<>>
  /\ before' = state
  /\ event' = Event("Read", state[1], w)
  /\ LET id == ValueString(state[1].Id) IN
     IF id = ""
       THEN Fails(<<Diag("Missing ID",
                         <<"The resource ID is missing from the state">>)>>,
                  <<>>)
       ELSE LET r == GetScorecard(id, w)
                cs == <<Call("fetch", id)>>
            IN  IF r.err # <<>>
                  THEN Fails(<<Diag("Error reading scorecard",
                                    <<"Could not read scorecard ID %s: %s",
                                      id, r.err>>)>>, cs)
                  ELSE Stores(r.resp, state[1], cs)

\* Update handing the stored scorecard, not the plan, to the mapping as
\* oldPlan.
UpdateAgainstState(desired, w) ==
  /\ state # <<>>
  /\ before' = state
  /\ LET plan == [desired EXCEPT !.Id = state[1].Id]
         payload == UpdatePayload(plan)
         r == UpdateScorecard(payload, w)
         cs == <<Call("update", payload)>>
         mapped == mapApiResponseToTerraformModel(r.resp, plan, state[1])
     IN  /\ event' = Event("Update", plan, w)
         /\ IF r.err # <<>>
              THEN Fails(<<Diag("Error updating scorecard", r.err)>>, cs)
              ELSE /\ diags' = <<>>
                   /\ calls' = cs
                   /\ crashed' = mapped.panic
                   /\ state' = IF mapped.panic THEN state
                                               ELSE <<mapped.plan>>

\* The plan of an update carries the stored id (UseStateForUnknown).
Update(desired, w) ==
  /\ state # <<>>
  /\ before' = state
  /\ LET plan == [desired EXCEPT !.Id = state[1].Id]
         payload == UpdatePayload(plan)
         r == UpdateScorecard(payload, w)
         cs == <<Call("update", payload)>>
     IN  /\ event' = Event("Update", plan, w)
         /\ IF r.err # <<>>
              THEN Fails(<<Diag("Error updating scorecard", r.err)>>, cs)
              ELSE Stores(r.resp, plan, cs)

\* Delete calling the service without looking at the id.
DeleteWithoutIdCheck(w) ==
  /\ state # <<>>
  /\ before' = state
  /\ event' = Event("Delete", state[1], w)
  /\ LET id == ValueString(state[1].Id)
         r == DeleteScorecard(id, w)
         cs == <<Call("delete", id)>>
     IN  IF r.err # <<>>
           THEN Fails(<<Diag("Error deleting scorecard", r.err)>>, cs)
         ELSE IF ~r.success
           THEN Fails(<<Diag("Error deleting scorecard",
                             <<"API did not confirm deletion.">>)>>, cs)
         ELSE /\ diags' = <<>>
              /\ calls' = cs
              /\ crashed' = FALSE
              /\ state' = <<>>

\* After a Delete that returns without error the caller discards the state.
Delete(w) ==
  /\ state # <<>>
  /\ before' = state
  /\ event' = Event("Delete", state[1], w)
  /\ LET id == ValueString(state[1].Id) IN
     IF id = ""
       THEN Fails(<<Diag("Missing ID",
                         <<"The resource ID is missing from the state">>)>>,
                  <<>>)
       ELSE LET r == DeleteScorecard(id, w)
                cs == <<Call("delete", id)>>
            IN  IF r.err # <<>>
                  THEN Fails(<<Diag("Error deleting scorecard", r.err)>>, cs)
                ELSE IF ~r.success
                  THEN Fails(<<Diag("Error deleting scorecard",
                                    <<"API did not confirm deletion.">>)>>, cs)
                ELSE /\ diags' = <<>>
                     /\ calls' = cs
                     /\ crashed' = FALSE
                     /\ state' = <<>>

(***************************************************************************)
(* Inputs.  Desired scorecards as the declarer writes them (computed ids   *)
(* are unknown in a plan), and responses of the remote service.            *)
(***************************************************************************)
MaxLen == 2

ItemNames == <<"Bronze", "Silver", "Gold", "Platinum">>

ItemKeys == <<"bronze", "silver", "gold", "platinum">>

ItemIds == <<"lvl_1", "lvl_2", "lvl_3", "lvl_4">>

DesiredLevel(i) ==
  levelModel(StringValue(ItemKeys[i]), StringUnknown,
             StringValue(ItemNames[i]), StringValue("#cd7f32"), NumberValue(i))

DesiredCheckGroup(i) ==
  checkGroupModel(StringValue(ItemKeys[i]), StringUnknown,
                  StringValue(ItemNames[i]), NumberValue(i))

\* Check i of a desired scorecard of type t; every attribute of a check
\* but the computed id and the type-specific ones is required by the schema.
DesiredCheck(i, t, enabled) ==
  [ZeroCheckModel EXCEPT
     !.Id = StringUnknown,
     !.Name = StringValue(ItemNames[i]),
     !.Description = StringValue("d"),
     !.Ordering = NumberValue(i),
     !.Sql = StringValue("select 1"),
     !.FilterSql = StringValue(""),
     !.FilterMessage = StringValue(""),
     !.OutputEnabled = BoolValue(enabled),
     !.OutputType = StringValue("string"),
     !.OutputAggregation = StringValue("none"),
     !.OutputCustomOptions = StringValue("{}"),
     !.EstimatedDevDays = NumberValue(1),
     !.ExternalUrl = StringValue("u"),
     !.Published = BoolValue(enabled),
     !.ScorecardLevelKey =
        IF t = "LEVEL" THEN StringValue(ItemKeys[1]) ELSE StringNull,
     !.Level = IF t = "LEVEL" THEN DesiredLevel(1) ELSE ZeroLevelModel,
     !.ScorecardCheckGroupKey =
        IF t = "POINTS" THEN StringValue(ItemKeys[1]) ELSE StringNull,
     !.CheckGroup =
        IF t = "POINTS" THEN DesiredCheckGroup(1) ELSE ZeroCheckGroupModel,
     !.Points = IF t = "POINTS" THEN NumberValue(5) ELSE NumberNull]

\* A desired scorecard of type t with n items in the collection its type
\* selects (levels unless t is POINTS), c checks, the attributes named in
\* miss left out, and `published` as given.
Desired(t, n, c, miss, pub) ==
  [ZeroScorecardModel EXCEPT
     !.Id = StringUnknown,
     !.Name = IF "name" \in miss THEN StringNull
              ELSE StringValue("Terraform Provider Scorecard"),
     !.Type = IF "type" \in miss THEN StringNull ELSE StringValue(t),
     !.EntityFilterType = IF "entity_filter_type" \in miss THEN StringNull
                          ELSE StringValue("entity_types"),
     !.EvaluationFrequency =
        IF "evaluation_frequency_hours" \in miss THEN NumberNull
        ELSE NumberValue(2),
     !.EmptyLevelLabel =
        IF t = "POINTS" \/ "empty_level_label" \in miss THEN StringNull
        ELSE StringValue("None"),
     !.EmptyLevelColor =
        IF t = "POINTS" \/ "empty_level_color" \in miss THEN StringNull
        ELSE StringValue("#cccccc"),
     !.Levels = IF t = "POINTS" THEN <<>>
                ELSE [i \in 1..n |-> DesiredLevel(i)],
     !.CheckGroups = IF t = "POINTS" THEN [i \in 1..n |-> DesiredCheckGroup(i)]
                     ELSE <<>>,
     !.Published = pub,
     !.EntityFilterTypeIdentifiers = <<StringValue("service")>>,
     !.Checks = [i \in 1..c |-> DesiredCheck(i, t, FALSE)]]

\* Responses.  The service assigns ids; it returns the items in the order
\* given by `order` (positions into ItemNames), with the level and check
\* group of a check present or left out as `subs` says.  APILevel and
\* APICheckGroup decode a "key" of the response: these responses carry one.
RemoteKeys == <<"remote_1", "remote_2", "remote_3", "remote_4">>

ResponseLevel(i) ==
  APILevel(PtrStr(RemoteKeys[i]), PtrStr(ItemIds[i]), PtrStr(ItemNames[i]),
           PtrStr("#cd7f32"), PtrInt(i))

ResponseCheckGroup(i) ==
  APICheckGroup(PtrStr(RemoteKeys[i]), PtrStr(ItemIds[i]),
                PtrStr(ItemNames[i]), PtrInt(i))

ResponseCheck(i, subs, enabled) ==
  [ZeroAPICheck EXCEPT
     !.Id = PtrStr(ItemIds[i]),
     !.Name = PtrStr(ItemNames[i]),
     !.Description = PtrStr("d"),
     !.Ordering = PtrInt(i),
     !.Sql = PtrStr("select 1"),
     !.OutputEnabled = enabled,
     !.Published = enabled,
     !.Level = IF "level" \in subs THEN PtrLevel(ResponseLevel(1))
               ELSE NilLevel,
     !.CheckGroup = IF "check_group" \in subs
                      THEN PtrCheckGroup(ResponseCheckGroup(1))
                      ELSE NilCheckGroup]

Response(id, t, order, c, subs, pub) ==
  APIResponse(TRUE,
    [ZeroAPIScorecard EXCEPT
       !.Id = id,
       !.Name = "Terraform Provider Scorecard",
       !.Type = t,
       !.EntityFilterType = "entity_types",
       !.EvaluationFrequency = 2,
       !.EmptyLevelLabel = IF t = "LEVEL" THEN PtrStr("None") ELSE NilStr,
       !.EmptyLevelColor = IF t = "LEVEL" THEN PtrStr("#cccccc") ELSE NilStr,
       !.Levels = IF t = "LEVEL"
                    THEN [i \in 1..Len(order) |-> ResponseLevel(order[i])]
                    ELSE <<>>,
       !.CheckGroups = IF t = "POINTS"
                    THEN [i \in 1..Len(order) |-> ResponseCheckGroup(order[i])]
                    ELSE <<>>,
       !.Published = pub,
       !.Checks = [i \in 1..c |-> ResponseCheck(i, subs, FALSE)]])

Identity(n) == [i \in 1..n |-> i]

DesiredScorecards ==
  {Desired("LEVEL", n, 0, {}, BoolNull) : n \in 0..MaxLen}
  \cup {Desired("LEVEL", 1, 1, {}, BoolValue(FALSE)),
        Desired("POINTS", 1, 1, {}, BoolNull),
        Desired("POINTS", 0, 0, {}, BoolNull),
        Desired("BOGUS", 1, 0, {}, BoolNull),
        Desired("LEVEL", 1, 0, {"name", "type"}, BoolNull),
        Desired("LEVEL", 0, 0, {"entity_filter_type"}, BoolNull)}

Responses ==
  {Response("sc_1", "LEVEL", Identity(n), 0, {}, FALSE) : n \in 0..MaxLen}
  \cup {Response("sc_1", "LEVEL", Identity(1), 1, subs, FALSE) :
          subs \in {{"level"}, {"level", "check_group"}}}
  \cup {Response("sc_1", "POINTS", Identity(1), 0, {}, FALSE)}

Wires ==
  {Wire("ok", StatusOK, TRUE, b) : b \in Responses}
  \cup {Wire("ok", StatusCreated, TRUE,
             Response("sc_1", "LEVEL", Identity(1), 0, {}, FALSE)),
        Wire("ok", StatusNoContent, FALSE, ZeroAPIResponse),
        Wire("ok", StatusNotFound, FALSE, ZeroAPIResponse),
        Wire("ok", StatusOK, FALSE, ZeroAPIResponse),
        Wire("transport", 0, FALSE, ZeroAPIResponse),
        Wire("cancelled", 0, FALSE, ZeroAPIResponse)}

\* The response of a service that returns the scorecard exactly as it is
\* stored: every server-owned field of m, and no key.
EchoString(x) == IF x.st = "known" THEN PtrStr(x.v) ELSE NilStr

EchoNumber(x) == IF x.st = "known" THEN PtrInt(x.v) ELSE NilInt

EchoLevel(l) ==
  APILevel(NilStr, EchoString(l.Id), EchoString(l.Name), EchoString(l.Color),
           EchoNumber(l.Rank))

EchoCheckGroup(g) ==
  APICheckGroup(NilStr, EchoString(g.Id), EchoString(g.Name),
                EchoNumber(g.Ordering))

EchoCheck(c) ==
  [Id |-> EchoString(c.Id),
   Name |-> EchoString(c.Name),
   Ordering |-> EchoNumber(c.Ordering),
   Description |-> EchoString(c.Description),
   Sql |-> EchoString(c.Sql),
   FilterSql |-> EchoString(c.FilterSql),
   FilterMessage |-> EchoString(c.FilterMessage),
   OutputEnabled |-> ValueBool(c.OutputEnabled),
   OutputType |-> EchoString(c.OutputType),
   OutputAggregation |-> EchoString(c.OutputAggregation),
   OutputCustomOptions |-> EchoString(c.OutputCustomOptions),
   EstimatedDevDays |-> EchoNumber(c.EstimatedDevDays),
   ExternalUrl |-> EchoString(c.ExternalUrl),
   Published |-> ValueBool(c.Published),
   ScorecardLevelKey |-> NilStr,
   Level |-> PtrLevel(EchoLevel(c.Level)),
   ScorecardCheckGroupKey |-> NilStr,
   CheckGroup |-> PtrCheckGroup(EchoCheckGroup(c.CheckGroup)),
   Points |-> EchoNumber(c.Points)]

Echo(m) ==
  APIResponse(TRUE,
    [Id |-> ValueString(m.Id),
     Name |-> ValueString(m.Name),
     Description |-> EchoString(m.Description),
     Published |-> ValueBool(m.Published),
     Type |-> ValueString(m.Type),
     EntityFilterType |-> ValueString(m.EntityFilterType),
     EvaluationFrequency |-> m.EvaluationFrequency.v,
     EmptyLevelLabel |-> EchoString(m.EmptyLevelLabel),
     EmptyLevelColor |-> EchoString(m.EmptyLevelColor),
     Levels |-> [i \in 1..Len(m.Levels) |-> EchoLevel(m.Levels[i])],
     CheckGroups |->
       [i \in 1..Len(m.CheckGroups) |-> EchoCheckGroup(m.CheckGroups[i])],
     EntityFilterTypeIdentifiers |->
       [i \in 1..Len(m.EntityFilterTypeIdentifiers) |->
          EchoString(m.EntityFilterTypeIdentifiers[i])],
     EntityFilterSql |-> EchoString(m.EntityFilterSql),
     Checks |-> [i \in 1..Len(m.Checks) |-> EchoCheck(m.Checks[i])]])

Next ==
  \/ \E plan \in DesiredScorecards, w \in Wires : Create(plan, w)
  \/ \E w \in Wires : Read(w)
  \/ \E plan \in DesiredScorecards, w \in Wires : Update(plan, w)
  \/ \E w \in Wires : Delete(w)

Spec == Init /\ [][Next]_vars

(***************************************************************************)
(* The reconciliation on its own: the persisted state is drawn from the    *)
(* stored scorecards below (every id assigned, the optional booleans       *)
(* unset, false or true) and refreshed by Read with the responses of       *)
(* ReconcileWires, among them the echo of what is stored.                  *)
(***************************************************************************)
StoredLevel(i) ==
  levelModel(StringValue(ItemKeys[i]), StringValue(ItemIds[i]),
             StringValue(ItemNames[i]), StringValue("#cd7f32"), NumberValue(i))

StoredCheckGroup(i) ==
  checkGroupModel(StringValue(ItemKeys[i]), StringValue(ItemIds[i]),
                  StringValue(ItemNames[i]), NumberValue(i))

StoredCheck(i, t, enabled) ==
  [DesiredCheck(i, t, FALSE) EXCEPT
     !.Id = StringValue(ItemIds[i]),
     !.OutputEnabled = enabled,
     !.Published = enabled,
     !.Level = IF t = "LEVEL" THEN StoredLevel(1) ELSE ZeroLevelModel,
     !.CheckGroup =
        IF t = "POINTS" THEN StoredCheckGroup(1) ELSE ZeroCheckGroupModel]

Stored(t, n, c, pub, enabled) ==
  [Desired(t, n, 0, {}, pub) EXCEPT
     !.Id = StringValue("sc_1"),
     !.Levels = IF t = "LEVEL" THEN [i \in 1..n |-> StoredLevel(i)]
                ELSE <<>>,
     !.CheckGroups = IF t = "POINTS" THEN [i \in 1..n |-> StoredCheckGroup(i)]
                     ELSE <<>>,
     !.Checks = [i \in 1..c |-> StoredCheck(i, t, enabled)]]

TriBools == {BoolNull, BoolValue(FALSE), BoolValue(TRUE)}

StoredScorecards ==
  {Stored(t, n, 0, pub, BoolNull) :
     t \in {"LEVEL", "POINTS"}, n \in 1..MaxLen, pub \in TriBools}
  \cup {Stored(t, 1, 1, BoolNull, enabled) :
     t \in {"LEVEL", "POINTS"}, enabled \in TriBools}
  \cup {Stored("LEVEL", 1, MaxLen, BoolNull, BoolNull)}

Reversed(n) == [i \in 1..n |-> n + 1 - i]

ReconcileResponses ==
  {Response("sc_1", "LEVEL", Identity(n), 0, {}, pub) :
     n \in 0..MaxLen, pub \in BOOLEAN}
  \cup {Response("sc_1", "POINTS", Identity(n), 0, {}, FALSE) : n \in 1..MaxLen}
  \cup {Response("sc_1", t, Reversed(MaxLen), 0, {}, FALSE) :
          t \in {"LEVEL", "POINTS"}}
  \cup {Response("sc_1", t, Identity(1), 1, subs, FALSE) :
          t \in {"LEVEL", "POINTS"},
          subs \in {{"level"}, {"check_group"}, {"level", "check_group"}}}

ReconcileWires ==
  {Wire("ok", StatusOK, TRUE, b) : b \in ReconcileResponses}
  \cup {Wire("ok", StatusOK, TRUE, Echo(state[1])),
        Wire("ok", StatusNotFound, FALSE, ZeroAPIResponse)}

InitReconcile ==
  /\ state \in {<<m>> : m \in StoredScorecards}
  /\ before = state
  /\ diags = <<>>
  /\ calls = <<>>
  /\ crashed = FALSE
  /\ event = Event("none", ZeroScorecardModel, ZeroWire)

NextReconcile == \E w \in ReconcileWires : Read(w)

SpecReconcile == InitReconcile /\ [][NextReconcile]_vars

(***************************************************************************)
(* The payloads on their own: the declarer populates levels and            *)
(* check_groups independently of the type, sets the optional fields to a   *)
(* value, to the empty value ("", false, []) or not at all, and gives a    *)
(* check both a level and a check group.  The service answers with a       *)
(* scorecard of the type it was sent (or stored), under the id "sc_1" or   *)
(* under another id, or the transport fails.                               *)
(***************************************************************************)
OptionalFlavours == {"set", "unset", "empty"}

DeclaredString(opt, v) ==
  IF opt = "unset" THEN StringNull
  ELSE IF opt = "empty" THEN StringValue("")
  ELSE StringValue(v)

DeclaredBool(opt) ==
  IF opt = "unset" THEN BoolNull ELSE BoolValue(opt = "set")

\* A declared list of strings (not declared, [] or ["service"]) and what
\* Plan.Get decodes it into: a slice, of length 0 for a list that is not
\* declared and for the empty list alike.
ListDeclaration(opt) ==
  [set |-> opt # "unset",
   items |-> IF opt = "set" THEN <<"service">> ELSE <<>>]

PlanGetList(d) == [i \in 1..Len(d.items) |-> StringValue(d.items[i])]

DeclaredIdentifiers(opt) == PlanGetList(ListDeclaration(opt))

DeclaredCheck(i, t) ==
  [DesiredCheck(i, t, FALSE) EXCEPT
     !.ScorecardLevelKey = StringValue(ItemKeys[1]),
     !.Level = DesiredLevel(1),
     !.ScorecardCheckGroupKey = StringValue(ItemKeys[1]),
     !.CheckGroup = DesiredCheckGroup(1),
     !.Points = NumberValue(5)]

Declared(t, nl, ng, c, opt) ==
  [Desired(t, 0, 0, {}, DeclaredBool(opt)) EXCEPT
     !.EmptyLevelLabel = StringValue("None"),
     !.EmptyLevelColor = StringValue("#cccccc"),
     !.Levels = [i \in 1..nl |-> DesiredLevel(i)],
     !.CheckGroups = [i \in 1..ng |-> DesiredCheckGroup(i)],
     !.Description = DeclaredString(opt, "d"),
     !.EntityFilterSql = DeclaredString(opt, "select 1"),
     !.EntityFilterTypeIdentifiers = DeclaredIdentifiers(opt),
     !.Checks = [i \in 1..c |-> DeclaredCheck(i, t)]]

PayloadScorecards ==
  {Declared(t, nl, ng, 0, opt) :
     t \in {"LEVEL", "POINTS", "BOGUS"}, nl \in 0..1, ng \in 0..1,
     opt \in OptionalFlavours}
  \cup {Declared(t, 1, 1, 1, "set") : t \in {"LEVEL", "POINTS"}}

\* A response that carries a description and an empty entity_filter_sql.
Described(apiResp) ==
  [apiResp EXCEPT !.Scorecard.Description = PtrStr("described"),
                  !.Scorecard.EntityFilterSql = PtrStr("")]

PayloadWires(plan) ==
  {Wire("ok", StatusOK, TRUE,
        Response(id, ValueString(plan.Type), Identity(1), 0, {}, FALSE)) :
     id \in {"sc_1", "sc_2"}}
  \cup {Wire("transport", 0, FALSE, ZeroAPIResponse)}

DescribedWire(plan) ==
  Wire("ok", StatusOK, TRUE,
       Described(Response("sc_1", ValueString(plan.Type), Identity(1),
                          0, {}, FALSE)))

NextPayload ==
  \/ \E plan \in PayloadScorecards :
       \E w \in PayloadWires(plan) : Create(plan, w)
  \/ \E plan \in PayloadScorecards :
       \E w \in PayloadWires(plan) : Update(plan, w)
  \/ state # <<>>
       /\ \E w \in PayloadWires(state[1]) \cup {DescribedWire(state[1])} :
            Read(w)

SpecPayload == Init /\ [][NextPayload]_vars

(***************************************************************************)
(* The response envelope: the service answers with `ok` true or false,     *)
(* and with a scorecard that has an id or none.                            *)
(***************************************************************************)
EnvelopeScorecards ==
  {Desired("LEVEL", n, 0, {}, BoolNull) : n \in 1..MaxLen}
  \cup {Desired("POINTS", 1, 0, {}, BoolNull)}

EnvelopeResponses ==
  {APIResponse(ok, Response(id, "LEVEL", Identity(n), 0, {}, FALSE).Scorecard) :
     ok \in BOOLEAN, id \in {"sc_1", ""}, n \in 1..MaxLen}
  \cup {APIResponse(ok, Response("sc_1", "POINTS", Identity(1), 0, {},
                                 FALSE).Scorecard) : ok \in BOOLEAN}

EnvelopeWires ==
  {Wire("ok", StatusOK, TRUE, b) : b \in EnvelopeResponses}
  \cup {Wire("ok", StatusCreated, TRUE,
              APIResponse(ok, Response("sc_1", "LEVEL", Identity(1), 0, {},
                                       FALSE).Scorecard)) : ok \in BOOLEAN}
  \cup {Wire("ok", StatusNoContent, FALSE, ZeroAPIResponse),
        Wire("transport", 0, FALSE, ZeroAPIResponse)}

NextEnvelope ==
  \/ \E plan \in EnvelopeScorecards : \E w \in EnvelopeWires : Create(plan, w)
  \/ \E w \in EnvelopeWires : Read(w)
  \/ \E plan \in EnvelopeScorecards : \E w \in EnvelopeWires : Update(plan, w)
  \/ \E w \in EnvelopeWires : Delete(w)

SpecEnvelope == Init /\ [][NextEnvelope]_vars

(***************************************************************************)
(* Properties.                                                             *)
(***************************************************************************)
RemoteCalled == calls # <<>>

\* The remote call of the last event failed: the transport failed, the
\* context was cancelled during the call, the status was not a success
\* status, or the body of a response that is decoded did not decode.
RemoteFailed ==
  /\ RemoteCalled
  /\ \/ event.wire.net \in {"transport", "cancelled"}
     \/ event.wire.status \notin 200..299
     \/ event.op # "Delete" /\ ~event.wire.decodable

\* The rules of the validator that the desired scorecard violates.
ViolatedRules(plan) ==
  {f \in {"name"} : Missing(plan.Name)}
  \cup {f \in {"type"} : Missing(plan.Type)}
  \cup {f \in {"entity_filter_type"} : Missing(plan.EntityFilterType)}
  \cup {f \in {"evaluation_frequency_hours"} :
          Missing(plan.EvaluationFrequency)}
  \cup {f \in {"empty_level_label"} :
          ValueString(plan.Type) = "LEVEL" /\ Missing(plan.EmptyLevelLabel)}
  \cup {f \in {"empty_level_color"} :
          ValueString(plan.Type) = "LEVEL" /\ Missing(plan.EmptyLevelColor)}
  \cup {f \in {"levels"} :
          ValueString(plan.Type) = "LEVEL" /\ Len(plan.Levels) = 0}
  \cup {f \in {"check_groups"} :
          ValueString(plan.Type) = "POINTS" /\ Len(plan.CheckGroups) = 0}
  \cup {f \in {"invalid type"} :
          ~Missing(plan.Type) /\ plan.Type.v \notin {"LEVEL", "POINTS"}}

Reported(detail) == \E i \in 1..Len(diags) : diags[i].detail = detail

\* C1: a lifecycle event that ends in an error leaves the persisted state
\* exactly as it was before the event, and an event whose validation or
\* remote call fails (transport error, cancellation, non-success status,
\* decode error) does end in a reported error.
C1_ErrorLeavesStateUnchanged ==
  /\ HasError(diags) => state = before
  /\ RemoteFailed => HasError(diags) /\ state = before
  /\ (event.op = "Create" /\ ViolatedRules(event.plan) # {})
        => HasError(diags) /\ state = before

C1_Witness ==
  /\ event.op = "Update"
  /\ event.wire.net = "cancelled"
  /\ RemoteCalled
  /\ HasError(diags)
  /\ state # <<>>
  /\ state = before

\* C2: after Create, the reported errors are one for each rule the desired
\* scorecard violates.
C2_EveryViolatedRuleReported ==
  (event.op = "Create" /\ ViolatedRules(event.plan) # {})
    => Len(diags) = Cardinality(ViolatedRules(event.plan))

\* C3: an Update whose desired scorecard violates a validation rule reports
\* an error and issues no remote call.
C3_UpdateValidatesBeforeCall ==
  (event.op = "Update" /\ ViolatedRules(event.plan) # {})
    => HasError(diags) /\ ~RemoteCalled

\* C4: a desired scorecard whose type-selected collection is empty is
\* rejected with the error of that collection, and no remote call is issued.
C4_EmptyCollectionRejected ==
  /\ (event.op \in {"Create", "Update"}
        /\ ValueString(event.plan.Type) = "LEVEL"
        /\ Len(event.plan.Levels) = 0)
      => /\ Reported(<<"At least one 'level' must be specified for LEVEL scorecards.">>)
         /\ ~RemoteCalled
  /\ (event.op \in {"Create", "Update"}
        /\ ValueString(event.plan.Type) = "POINTS"
        /\ Len(event.plan.CheckGroups) = 0)
      => /\ Reported(<<"At least one 'check_group' must be specified for POINTS scorecards.">>)
         /\ ~RemoteCalled

\* C5: a desired scorecard whose type is a value outside {LEVEL, POINTS} is
\* rejected with an "invalid type" error naming the value, and no remote
\* call is issued.
C5_InvalidTypeRejected ==
  (event.op \in {"Create", "Update"}
     /\ event.plan.Type.st = "known"
     /\ event.plan.Type.v \notin {"LEVEL", "POINTS"})
    => /\ \E i \in 1..Len(diags) :
            /\ diags[i].summary = "Invalid scorecard type"
            /\ diags[i].detail[Len(diags[i].detail)] = event.plan.Type.v
       /\ ~RemoteCalled

\* C6: a Read whose fetch is answered "not found" removes the persisted
\* state and reports no error.
C6_ReadNotFoundRemovesState ==
  (event.op = "Read" /\ RemoteCalled /\ event.wire.net = "ok"
     /\ event.wire.status = StatusNotFound)
    => state = <<>> /\ ~HasError(diags)

Succeeded == RemoteCalled /\ ~HasError(diags) /\ ~crashed

\* The id name correlation gives a declared item: that of the first
\* response item of the same name, or none.
Matches(declared, apiItem) ==
  declared.Name.st = "known" /\ ~apiItem.Name.nil
    /\ apiItem.Name.v = declared.Name.v

CorrelatedId(id, declared, apiItems) ==
  IF \E j \in 1..Len(apiItems) : Matches(declared, apiItems[j])
    THEN LET first == CHOOSE j \in 1..Len(apiItems) :
                        /\ Matches(declared, apiItems[j])
                        /\ \A k \in 1..(j - 1) : ~Matches(declared, apiItems[k])
         IN  id = stringOrNull(apiItems[first].Id)
    ELSE id.st # "known"

CorrelatedByName(stored, declared, apiItems, keyed) ==
  /\ Len(stored) = Len(declared)
  /\ \A i \in 1..Len(stored) :
       /\ i <= Len(declared)
       /\ stored[i].Name = declared[i].Name
       /\ keyed => stored[i].Key = declared[i].Key
       /\ CorrelatedId(stored[i].Id, declared[i], apiItems)

\* C7: after a successful Create the persisted levels, check groups and
\* checks are the declared items, in the declared order and with the
\* declared keys, each with the id of the first response item of the same
\* name (or no id), and nothing else.
C7_CreateCorrelatesByName ==
  (event.op = "Create" /\ Succeeded)
    => LET sc == event.wire.body.Scorecard IN
       /\ CorrelatedByName(state[1].Levels, event.plan.Levels, sc.Levels, TRUE)
       /\ CorrelatedByName(state[1].CheckGroups, event.plan.CheckGroups,
                           sc.CheckGroups, TRUE)
       /\ CorrelatedByName(state[1].Checks, event.plan.Checks, sc.Checks,
                           FALSE)

\* C8: reconciling a well-formed response never crashes, also when its
\* checks leave out the level or the check group.
C8_ReconcileNeverCrashes == ~crashed

\* The value the policy for optional booleans gives.
OptionalBool(apiVal, stored) ==
  IF ~apiVal /\ IsNull(stored) THEN BoolNull ELSE BoolValue(apiVal)

\* C9: after a Read, `published` and each check's `output_enabled` are
\* unset exactly when the response value is false and the value stored
\* before was unset, and equal the response value otherwise.
C9_OptionalBooleans ==
  (event.op = "Read" /\ Succeeded)
    => LET sc == event.wire.body.Scorecard
           prev == before[1]
       IN  /\ state[1].Published = OptionalBool(sc.Published, prev.Published)
           /\ Len(sc.Checks) > 0 =>
                \A i \in 1..Len(sc.Checks) :
                  state[1].Checks[i].OutputEnabled =
                    OptionalBool(sc.Checks[i].OutputEnabled,
                                 IF i <= Len(prev.Checks)
                                   THEN prev.Checks[i].OutputEnabled
                                   ELSE BoolNull)

\* C10: a Read whose response echoes the stored scorecard leaves the
\* persisted state as it was.
C10_EchoIsIdempotent ==
  (event.op = "Read" /\ Succeeded
     /\ event.wire.body = Echo(before[1]))
    => state = before

\* The attributes of a reconciled level, check group and check that the
\* response supplies.
LevelFromResponse(item, apiItem) ==
  /\ item.Id = stringOrNull(apiItem.Id)
  /\ item.Name = stringOrNull(apiItem.Name)
  /\ item.Color = stringOrNull(apiItem.Color)
  /\ item.Rank = numberOrNull(apiItem.Rank)

CheckGroupFromResponse(item, apiItem) ==
  /\ item.Id = stringOrNull(apiItem.Id)
  /\ item.Name = stringOrNull(apiItem.Name)
  /\ item.Ordering = numberOrNull(apiItem.Ordering)

CheckFromResponse(item, apiItem) ==
  /\ item.Id = stringOrNull(apiItem.Id)
  /\ item.Name = stringOrNull(apiItem.Name)
  /\ item.Description = stringOrNull(apiItem.Description)
  /\ item.Ordering = numberOrNull(apiItem.Ordering)
  /\ item.Sql = stringOrNull(apiItem.Sql)
  /\ item.ExternalUrl = stringOrNull(apiItem.ExternalUrl)
  /\ item.Points = numberOrNull(apiItem.Points)
  /\ LevelFromResponse(item.Level, apiItem.Level.v)
  /\ CheckGroupFromResponse(item.CheckGroup, apiItem.CheckGroup.v)

\* A reconciled list: the previous list when the response list is empty,
\* else one item for each item of the response, built from it.
FallbackOrReplaced(list, apiList, prevList, FromResponse(_, _)) ==
  IF Len(apiList) = 0
    THEN list = prevList
    ELSE /\ Len(list) = Len(apiList)
         /\ \A i \in 1..Len(apiList) : FromResponse(list[i], apiList[i])

\* C11: after a Read, each of levels, check_groups and checks is the list
\* stored before when the response's list is empty, and is built from the
\* response's items, one for one, when it is not.
C11_ListFallbackOrReplace ==
  (event.op = "Read" /\ Succeeded)
    => LET sc == event.wire.body.Scorecard
           prev == before[1]
       IN  /\ FallbackOrReplaced(state[1].Levels, sc.Levels, prev.Levels,
                                 LevelFromResponse)
           /\ FallbackOrReplaced(state[1].CheckGroups, sc.CheckGroups,
                                 prev.CheckGroups, CheckGroupFromResponse)
           /\ FallbackOrReplaced(state[1].Checks, sc.Checks, prev.Checks,
                                 CheckFromResponse)

C11_Witness ==
  /\ event.op = "Read" /\ Succeeded
  /\ Len(event.wire.body.Scorecard.Levels) = 0
  /\ Len(before[1].Levels) = 2
  /\ state[1].Levels = before[1].Levels
  /\ Len(event.wire.body.Scorecard.Checks) = 0
  /\ Len(before[1].Checks) > 0
  /\ state[1].Checks = before[1].Checks

\* Item i of a replaced list: the response's attributes, and the key of
\* item i of the previous list (unset when there is no such item).
MergedByPosition(list, apiList, prevList, FromResponse(_, _)) ==
  Len(apiList) > 0 =>
    /\ Len(list) = Len(apiList)
    /\ \A i \in 1..Len(apiList) :
         /\ FromResponse(list[i], apiList[i])
         /\ list[i].Key = IF i <= Len(prevList) THEN prevList[i].Key
                                                ELSE StringNull

\* C12: after a Read, item i of a replaced levels or check_groups list has
\* id, name, color/ordering and rank of item i of the response and the key
\* of item i of the list stored before, or no key when the stored list had
\* no item i; the order of the response does not move a key.
C12_MergeByPosition ==
  (event.op = "Read" /\ Succeeded)
    => LET sc == event.wire.body.Scorecard
           prev == before[1]
       IN  /\ MergedByPosition(state[1].Levels, sc.Levels, prev.Levels,
                               LevelFromResponse)
           /\ MergedByPosition(state[1].CheckGroups, sc.CheckGroups,
                               prev.CheckGroups, CheckGroupFromResponse)

\* The response returns the stored levels in another order: the first key
\* is now on the level the response put first.
C12_Witness ==
  /\ event.op = "Read" /\ Succeeded
  /\ Len(before[1].Levels) > 1
  /\ Len(state[1].Levels) = Len(before[1].Levels)
  /\ state[1].Levels[1].Key = before[1].Levels[1].Key
  /\ state[1].Levels[1].Id # before[1].Levels[1].Id
  /\ \E j \in 2..Len(before[1].Levels) :
        state[1].Levels[1].Id = before[1].Levels[j].Id

\* The map m sends no "id".
NoId(m) == "id" \notin DOMAIN m

\* C13: the payload Create sends has no "id" entry: not on the scorecard,
\* on a level, on a check group, on a check, nor on the level or check
\* group embedded in a check.
C13_CreatePayloadWithoutIds ==
  (event.op = "Create" /\ RemoteCalled)
    => LET payload == calls[1].arg IN
       /\ NoId(payload)
       /\ "levels" \in DOMAIN payload =>
            \A i \in 1..Len(payload.levels) : NoId(payload.levels[i])
       /\ "check_groups" \in DOMAIN payload =>
            \A i \in 1..Len(payload.check_groups) :
               NoId(payload.check_groups[i])
       /\ \A i \in 1..Len(payload.checks) :
            /\ NoId(payload.checks[i])
            /\ "level" \in DOMAIN payload.checks[i] =>
                 NoId(payload.checks[i].level)
            /\ "check_group" \in DOMAIN payload.checks[i] =>
                 NoId(payload.checks[i].check_group)

\* The payload entity `sent` stands for the stored entity of the same key:
\* it carries the id that is stored.
SendsStoredId(stored, sent) ==
  (stored.Key.st = "known" /\ stored.Id.st = "known"
     /\ sent.key = stored.Key.v)
    => "id" \in DOMAIN sent /\ sent.id = stored.Id.v

\* C14: the payload Update sends carries, for the scorecard and for every
\* level, check group, check and embedded level or check group that has an
\* id in the state stored before the update, that id.
C14_UpdatePayloadCarriesStoredIds ==
  (event.op = "Update" /\ RemoteCalled)
    => LET payload == calls[1].arg
           prev == before[1]
       IN  /\ prev.Id.st = "known" => payload.id = prev.Id.v
           /\ "levels" \in DOMAIN payload =>
                \A i \in 1..Len(prev.Levels), j \in 1..Len(payload.levels) :
                   SendsStoredId(prev.Levels[i], payload.levels[j])
           /\ "check_groups" \in DOMAIN payload =>
                \A i \in 1..Len(prev.CheckGroups),
                   j \in 1..Len(payload.check_groups) :
                   SendsStoredId(prev.CheckGroups[i], payload.check_groups[j])
           /\ \A i \in 1..Len(payload.checks) :
                i <= Len(prev.Checks) =>
                  /\ prev.Checks[i].Id.st = "known" =>
                       payload.checks[i].id = prev.Checks[i].Id.v
                  /\ "level" \in DOMAIN payload.checks[i] =>
                       SendsStoredId(prev.Checks[i].Level,
                                     payload.checks[i].level)
                  /\ "check_group" \in DOMAIN payload.checks[i] =>
                       SendsStoredId(prev.Checks[i].CheckGroup,
                                     payload.checks[i].check_group)

Sends(key) == key \in DOMAIN calls[1].arg

\* C15: a payload of Create or Update has levels, empty_level_label and
\* empty_level_color exactly when the type is LEVEL and check_groups
\* exactly when the type is POINTS, and never both levels and check_groups,
\* whatever else the desired scorecard populates.
C15_TypeSelectsCollection ==
  (event.op \in {"Create", "Update"} /\ RemoteCalled)
    => LET t == ValueString(event.plan.Type) IN
       /\ ~(Sends("levels") /\ Sends("check_groups"))
       /\ Sends("levels") <=> t = "LEVEL"
       /\ Sends("empty_level_label") <=> t = "LEVEL"
       /\ Sends("empty_level_color") <=> t = "LEVEL"
       /\ Sends("check_groups") <=> t = "POINTS"

\* A POINTS scorecard that also declares levels and the empty-level label
\* is sent with its check groups only.
C15_Witness ==
  /\ event.op \in {"Create", "Update"} /\ RemoteCalled
  /\ ValueString(event.plan.Type) = "POINTS"
  /\ Len(event.plan.Levels) > 0
  /\ Len(event.plan.CheckGroups) > 0
  /\ Present(event.plan.EmptyLevelLabel)
  /\ Sends("check_groups") /\ ~Sends("levels")
  /\ ~Sends("empty_level_label")

\* C16: in a payload of Create or Update each of description, published,
\* entity_filter_type_identifiers and entity_filter_sql is present, with
\* the declared value, exactly when the declarer set it: "", false and []
\* are sent, a field that is not set is left out.
C16_OptionalPresentIffSet ==
  (event.op \in {"Create", "Update"} /\ RemoteCalled)
    => LET plan == event.plan
           payload == calls[1].arg
       IN  /\ Sends("description") <=> plan.Description.st = "known"
           /\ Sends("description") =>
                payload.description = plan.Description.v
           /\ Sends("published") <=> plan.Published.st = "known"
           /\ Sends("published") => payload.published = plan.Published.v
           /\ Sends("entity_filter_sql") <=> plan.EntityFilterSql.st = "known"
           /\ Sends("entity_filter_sql") =>
                payload.entity_filter_sql = plan.EntityFilterSql.v
           /\ \A opt \in OptionalFlavours :
                LET d == ListDeclaration(opt) IN
                PlanGetList(d) = plan.EntityFilterTypeIdentifiers =>
                  /\ Sends("entity_filter_type_identifiers") <=> d.set
                  /\ d.set =>
                       payload.entity_filter_type_identifiers = d.items

\* C17: a successful Read or Update of a scorecard whose id is assigned
\* leaves the persisted id as it was, whatever the response carries.
C17_IdStaysFixed ==
  (event.op \in {"Read", "Update"} /\ Succeeded
     /\ before[1].Id.st = "known")
    => state[1].Id = before[1].Id

\* C18: the state a successful Create, Read or Update persists has exactly
\* one of levels and check_groups non-empty: levels when the type is LEVEL,
\* check_groups when it is POINTS.
C18_OneCollectionByType ==
  (event.op \in {"Create", "Read", "Update"} /\ Succeeded)
    => LET m == state[1] IN
       /\ ValueString(m.Type) \in {"LEVEL", "POINTS"}
       /\ ValueString(m.Type) = "LEVEL" =>
            Len(m.Levels) > 0 /\ Len(m.CheckGroups) = 0
       /\ ValueString(m.Type) = "POINTS" =>
            Len(m.CheckGroups) > 0 /\ Len(m.Levels) = 0

\* The keys a scorecard model holds that are set: on its levels and check
\* groups, on the level and check group embedded in its checks, and in
\* scorecard_level_key and scorecard_check_group_key.
KeysOf(m) ==
  ({m.Levels[i].Key : i \in 1..Len(m.Levels)}
   \cup {m.CheckGroups[i].Key : i \in 1..Len(m.CheckGroups)}
   \cup {m.Checks[i].ScorecardLevelKey : i \in 1..Len(m.Checks)}
   \cup {m.Checks[i].Level.Key : i \in 1..Len(m.Checks)}
   \cup {m.Checks[i].ScorecardCheckGroupKey : i \in 1..Len(m.Checks)}
   \cup {m.Checks[i].CheckGroup.Key : i \in 1..Len(m.Checks)})
  \ {StringNull}

StateKeys(st) == IF st = <<>> THEN {} ELSE KeysOf(st[1])

\* C19: every key that is set in the persisted state was there before the
\* last event or is a key of the desired scorecard of that event; so every
\* persisted key is one the declarer supplied, and no key of a response
\* and no invented key is ever stored.
C19_KeysComeFromDeclarer ==
  /\ StateKeys(state) \subseteq StateKeys(before) \cup KeysOf(event.plan)
  /\ \A k \in StateKeys(state) :
       /\ k.st = "known"
       /\ \E i \in 1..Len(ItemKeys) : k.v = ItemKeys[i]

\* A Read whose response carries a key of its own on the first level: the
\* stored key of that level is still the declared one.
C19_Witness ==
  /\ event.op = "Read" /\ Succeeded
  /\ Len(event.wire.body.Scorecard.Levels) > 0
  /\ ~event.wire.body.Scorecard.Levels[1].Key.nil
  /\ state[1].Levels[1].Key = StringValue(ItemKeys[1])
  /\ event.wire.body.Scorecard.Levels[1].Key.v # ItemKeys[1]

\* C20: a Delete of a state with a non-empty id issues the remote delete
\* call for that id; when the service answers with a status that is not a
\* success status (not found among them) an error is reported and the
\* persisted state is kept; a Delete that ends without error had its
\* remote delete answered with a success status, and discards the state.
C20_DeleteReportsRemoteFailure ==
  (event.op = "Delete" /\ ValueString(before[1].Id) # "")
    => /\ calls = <<Call("delete", ValueString(before[1].Id))>>
       /\ (event.wire.net = "ok" /\ event.wire.status \notin 200..299)
            => HasError(diags) /\ state = before
       /\ ~HasError(diags)
            => /\ event.wire.net = "ok"
               /\ event.wire.status \in 200..299
               /\ state = <<>>

C20_Witness ==
  /\ event.op = "Delete"
  /\ event.wire.net = "ok" /\ event.wire.status = StatusNotFound
  /\ calls = <<Call("delete", ValueString(before[1].Id))>>
  /\ HasError(diags)
  /\ state = before /\ state # <<>>

\* The declaration of examples/resources/scorecard_example.tf, and the
\* response to its creation: id "sc_1" and the level {id "lvl_1", name
\* "Bronze", color "#cd7f32", rank 1}.
ExampleDeclaration == Desired("LEVEL", 1, 0, {}, BoolNull)

ExampleCreated == Response("sc_1", "LEVEL", Identity(1), 0, {}, FALSE)

ExampleIsCreated ==
  /\ event.op = "Create"
  /\ event.plan = ExampleDeclaration
  /\ event.wire.net = "ok"
  /\ event.wire.status \in {StatusOK, StatusCreated}
  /\ event.wire.decodable
  /\ event.wire.body = ExampleCreated

\* C21: for the example declaration, Create reports no error, sends a
\* payload without check_groups whose levels are the one declared level
\* without id, and on the response {id "sc_1", levels [{id "lvl_1", name
\* "Bronze"}]} persists id "sc_1" and one level with id "lvl_1" and key
\* "bronze".
C21_ExampleEndToEnd ==
  ExampleIsCreated
    => /\ diags = <<>>
       /\ Len(calls) = 1 /\ calls[1].op = "create"
       /\ "check_groups" \notin DOMAIN calls[1].arg
       /\ calls[1].arg.levels =
            <<[key |-> "bronze", name |-> "Bronze", color |-> "#cd7f32",
               rank |-> PtrInt(1)]>>
       /\ calls[1].arg.entity_filter_type_identifiers = <<"service">>
       /\ state # <<>>
       /\ state[1].Id = StringValue("sc_1")
       /\ Len(state[1].Levels) = 1
       /\ state[1].Levels[1].Id = StringValue("lvl_1")
       /\ state[1].Levels[1].Key = StringValue("bronze")

C21_Witness ==
  /\ ExampleIsCreated
  /\ state # <<>>
  /\ state[1].Levels[1].Name = StringValue("Bronze")
  /\ ~crashed

\* The keys of the checks of a replaced list are those of the checks of
\* `old` at the same positions, or unset.
CheckKeysByPosition(list, apiList, old) ==
  Len(apiList) > 0 =>
    /\ Len(list) = Len(apiList)
    /\ \A i \in 1..Len(apiList) :
         LET paired == IF i <= Len(old) THEN old[i] ELSE ZeroCheckModel IN
         /\ list[i].ScorecardLevelKey = paired.ScorecardLevelKey
         /\ list[i].Level.Key = paired.Level.Key
         /\ list[i].ScorecardCheckGroupKey = paired.ScorecardCheckGroupKey
         /\ list[i].CheckGroup.Key = paired.CheckGroup.Key

\* The levels, check groups and checks persisted by the last event are
\* the response's items paired by position with those of `old`.
PairedWith(old) ==
  LET sc == event.wire.body.Scorecard IN
  /\ MergedByPosition(state[1].Levels, sc.Levels, old.Levels,
                      LevelFromResponse)
  /\ MergedByPosition(state[1].CheckGroups, sc.CheckGroups, old.CheckGroups,
                      CheckGroupFromResponse)
  /\ CheckKeysByPosition(state[1].Checks, sc.Checks, old.Checks)

\* C22: after a successful Update each reconciled level, check group and
\* check has the key of the item at its position in the state persisted
\* before the update.
C22_UpdatePairsWithStoredState ==
  (event.op = "Update" /\ Succeeded) => PairedWith(before[1])

\* C22, amended: after a successful Update each reconciled level, check
\* group and check has the key of the item at its position in the desired
\* scorecard of the update, and no key where the desired scorecard has no
\* item.
C22_UpdatePairsWithPlan ==
  (event.op = "Update" /\ Succeeded) => PairedWith(event.plan)

\* The update declares a second level: its key is persisted, although the
\* state before the update had no second level.
C22_Witness ==
  /\ event.op = "Update" /\ Succeeded
  /\ Len(before[1].Levels) = 1
  /\ Len(event.plan.Levels) = 2
  /\ Len(state[1].Levels) = 2
  /\ state[1].Levels[2].Key = event.plan.Levels[2].Key
  /\ state[1].Levels[2].Key # StringNull

\* The remote operation each handler calls.
RemoteOperation ==
  [Create |-> "create", Read |-> "fetch", Update |-> "update",
   Delete |-> "delete"]

\* C23: a lifecycle event issues at most one remote call, that of its
\* operation; when the call fails the event reports an error, having made
\* the call once.
C23_AtMostOneRemoteCall ==
  /\ Len(calls) <= 1
  /\ RemoteCalled => calls[1].op = RemoteOperation[event.op]
  /\ RemoteFailed => Len(calls) = 1 /\ HasError(diags)

\* A Create whose remote call failed on the transport.
C23_Witness ==
  /\ event.op = "Create"
  /\ RemoteFailed
  /\ event.wire.net = "transport"
  /\ Len(calls) = 1
  /\ HasError(diags)

\* The reconciled value of an optional scalar: the response's value, or
\* unset when the response has none.
OptionalScalar(value, apiValue) ==
  /\ ~apiValue.nil => value = StringValue(apiValue.v)
  /\ apiValue.nil => IsNull(value) /\ value # StringValue("")

\* C24: after a reconciliation each optional scalar is the response's
\* value when the response carries one and is unset when it does not,
\* whatever the previous state held; it is never the empty string for an
\* absent value.
C24_OptionalScalarsFromResponse ==
  Succeeded /\ event.op \in {"Create", "Read", "Update"} =>
    LET sc == event.wire.body.Scorecard IN
    /\ OptionalScalar(state[1].Description, sc.Description)
    /\ OptionalScalar(state[1].EmptyLevelLabel, sc.EmptyLevelLabel)
    /\ OptionalScalar(state[1].EmptyLevelColor, sc.EmptyLevelColor)
    /\ OptionalScalar(state[1].EntityFilterSql, sc.EntityFilterSql)

\* A Read of a stored scorecard that has a description, answered without
\* one: the description becomes unset.
C24_Witness ==
  /\ event.op = "Read" /\ Succeeded
  /\ before[1].Description = StringValue("described")
  /\ event.wire.body.Scorecard.Description.nil
  /\ state[1].Description = StringNull

LevelCheckEntries == {"level", "scorecard_level_key"}

PointsCheckEntries == {"scorecard_check_group_key", "check_group", "points"}

\* C25: in the payload of a Create or an Update every check has the level
\* entries and none of the check group entries when the type is LEVEL,
\* and the check group entries and none of the level entries when the
\* type is POINTS, whatever the declared check populates.
C25_CheckEntriesFollowType ==
  RemoteCalled /\ event.op \in {"Create", "Update"} =>
    \A i \in 1..Len(calls[1].arg.checks) :
      LET sent == DOMAIN calls[1].arg.checks[i] IN
      /\ event.plan.Type = StringValue("LEVEL") =>
           /\ LevelCheckEntries \subseteq sent
           /\ PointsCheckEntries \cap sent = {}
      /\ event.plan.Type = StringValue("POINTS") =>
           /\ PointsCheckEntries \subseteq sent
           /\ LevelCheckEntries \cap sent = {}

\* A LEVEL scorecard whose check declares a check group and points too:
\* the check is sent with its level and without the check group.
C25_Witness ==
  /\ event.op = "Update" /\ RemoteCalled
  /\ event.plan.Type = StringValue("LEVEL")
  /\ Len(event.plan.Checks) = 1
  /\ event.plan.Checks[1].CheckGroup.Key = StringValue("bronze")
  /\ event.plan.Checks[1].Points = NumberValue(5)
  /\ Len(calls[1].arg.checks) = 1
  /\ "level" \in DOMAIN calls[1].arg.checks[1]
  /\ "check_group" \notin DOMAIN calls[1].arg.checks[1]

\* What Read stores for the response apiResp when s is the stored
\* scorecard.
reconcile(apiResp, s) == mapApiResponseToTerraformModel(apiResp, s, s)

\* C27: reconciling a response a second time changes nothing: the state a
\* Read stored is the state a second Read of the same response stores.
C27_ReconcileIdempotent ==
  event.op = "Read" /\ Succeeded =>
    LET r == event.wire.body
        once == reconcile(r, before[1])
        twice == reconcile(r, once.plan)
    IN  /\ state[1] = once.plan
        /\ ~twice.panic
        /\ twice.plan = once.plan

\* A Read that changed the stored scorecard and replaced its two levels.
C27_Witness ==
  /\ event.op = "Read" /\ Succeeded
  /\ state[1] # before[1]
  /\ Len(before[1].Levels) = 2
  /\ Len(event.wire.body.Scorecard.Levels) = 2
  /\ state[1].Levels # before[1].Levels
  /\ reconcile(event.wire.body, state[1]).plan = state[1]

\* A replaced list has the length of the response's list, and each of its
\* items is the response's item at its position.
TruncatedTo(list, apiList) ==
  Len(apiList) > 0 =>
    /\ Len(list) = Len(apiList)
    /\ \A i \in 1..Len(list) :
         /\ apiList[i].Id.nil => IsNull(list[i].Id)
         /\ ~apiList[i].Id.nil => list[i].Id = StringValue(apiList[i].Id.v)

\* The keys of the levels or check groups of a list.
ItemKeysOf(list) == {list[i].Key : i \in 1..Len(list)}

\* The keys that the previous items beyond the response's length declare.
KeysBeyond(apiList, prevList) ==
  {prevList[j].Key : j \in (Len(apiList) + 1)..Len(prevList)} \ {StringNull}

\* C28: a reconciled list that the response replaces has exactly the
\* response's length; the previous items beyond it are dropped, and so are
\* the keys of the previous levels and check groups beyond it.
C28_ReplacedListHasResponseLength ==
  event.op = "Read" /\ Succeeded =>
    LET sc == event.wire.body.Scorecard
        prev == before[1]
    IN  /\ TruncatedTo(state[1].Levels, sc.Levels)
        /\ TruncatedTo(state[1].CheckGroups, sc.CheckGroups)
        /\ TruncatedTo(state[1].Checks, sc.Checks)
        /\ Len(sc.Levels) > 0 =>
             KeysBeyond(sc.Levels, prev.Levels)
               \cap ItemKeysOf(state[1].Levels) = {}
        /\ Len(sc.CheckGroups) > 0 =>
             KeysBeyond(sc.CheckGroups, prev.CheckGroups)
               \cap ItemKeysOf(state[1].CheckGroups) = {}

\* Two check groups are stored and the response has one: one is kept, and
\* the key of the second is gone.
C28_Witness ==
  /\ event.op = "Read" /\ Succeeded
  /\ Len(before[1].CheckGroups) = 2
  /\ Len(event.wire.body.Scorecard.CheckGroups) = 1
  /\ Len(state[1].CheckGroups) = 1
  /\ before[1].CheckGroups[2].Key = StringValue("silver")
  /\ StringValue("silver") \notin ItemKeysOf(state[1].CheckGroups)

\* The service answered the call of the last event with a success status
\* of its operation and a body that decodes.
Answered ==
  /\ RemoteCalled
  /\ event.op \in {"Create", "Read", "Update"}
  /\ event.wire.net = "ok"
  /\ event.wire.decodable
  /\ event.wire.status
       \in IF event.op = "Read" THEN {StatusOK} ELSE {StatusOK, StatusCreated}

\* C29: the `ok` flag of the response does not change the outcome: an
\* answered Create, Read or Update reports no error, and what it stores is
\* what it stores for the same response with the flag inverted.
C29_OkFlagIgnored ==
  Answered =>
    LET r == event.wire.body
        inverted == APIResponse(~r.Ok, r.Scorecard)
        other == mapApiResponseToTerraformModel(inverted, event.plan,
                                                event.plan)
    IN  /\ ~HasError(diags)
        /\ crashed = other.panic
        /\ ~crashed => state = <<other.plan>>

\* An Update answered with `ok` false stores the response's scorecard.
C29_Witness ==
  /\ event.op = "Update" /\ Answered
  /\ ~event.wire.body.Ok
  /\ Succeeded
  /\ state # <<>> /\ state[1].Id = StringValue("sc_1")
  /\ Len(state[1].Levels) = Len(event.wire.body.Scorecard.Levels)

\* C30: a Read or a Delete of a stored scorecard whose id is empty reports
\* "Missing ID", calls nothing and leaves the state as it was.
C30_MissingIdStops ==
  /\ event.op \in {"Read", "Delete"}
  /\ ValueString(before[1].Id) = ""
  => /\ Len(diags) = 1
     /\ diags[1].summary = "Missing ID"
     /\ calls = <<>>
     /\ state = before

\* A Delete of a scorecard stored without an id, on a service that would
\* have confirmed the deletion.
C30_Witness ==
  /\ event.op = "Delete"
  /\ before # <<>> /\ before[1].Id = StringValue("")
  /\ event.wire.net = "ok" /\ event.wire.status = StatusNoContent
  /\ HasError(diags)
  /\ state = before

====
